---- MODULE Spec2Model ----
(***************************************************************************)
(* zkLogin session state machine (src/zklogin.js, class ZkLogin) together  *)
(* with the salt store it shares between sessions (class UserSaltDatabase, *)
(* kept in src/test-movecall.js from line 67 on).                          *)
(*                                                                         *)
(* processJWT is cut where it waits for the salt store: the part up to the *)
(* await is one action, each database callback another, and the suspended  *)
(* call is a record in `calls` holding the locals the continuation reads.  *)
(* The other methods touch no state shared between sessions while they     *)
(* wait (epoch fetch, signing) and are one action each.                    *)
(***************************************************************************)
EXTENDS Integers, Sequences, FiniteSets, TLC

\* ------------------------------------------------------------------ bounds
MaxFresh == 3   \* key pairs and randomness values one session draws
MaxSalts == 1   \* salts generateSalt() draws for the calls of one session

\* ------------------------------------------------------- program constants
FallbackEpoch == 100      \* getCurrentEpoch: return 100
DefaultMaxEpoch == 10     \* constructor: config.maxEpoch || 10

\* --------------------------------------------------------------- universes
Sessions == {"sA", "sB"}
Subjects == {"u1", "u2"}
PipelineSubjects == {"u1"}       \* the subject of the tokens one session is fed alone
Audiences == {"aud1"}
Providers == {"google", "facebook"}
ConfiguredSalts == {"0", "7"}

Null == [null |-> TRUE]          \* null / undefined
Absent == "undefined"            \* a claim or an argument that is not there
Dot == [dot |-> TRUE]             \* the character "."
NotJson == [garbage |-> TRUE]    \* a segment whose bytes are no JSON text
BogusNonce == [bogus |-> TRUE]   \* a nonce no session generated
ZkProof == [proof |-> "zkProof"]

\* ----------------------------------------------------------- error messages
ErrNoKeyPair == "Ephemeral key pair not generated. Call generateEphemeralKeyPair() first."
ErrNotPrepared == "JWT preparation not completed. Call prepareForJWT() first."
ErrJwtFormat == "Invalid JWT token format"
ErrDecode == "Failed to decode JWT"
ErrNonceMismatch == "Nonce mismatch"
ErrMissingSub == "JWT token missing subject (sub) claim"
ErrSetup == "zkLogin setup not completed"
ErrNoAddress == "User address not available. Process JWT first."
ErrConstraint == "SQLITE_CONSTRAINT: UNIQUE constraint failed: user_salts.user_identifier"
ErrNoDatabase == "Database not enabled"
ErrKeyScheme == "Unsupported key scheme"
ErrNoEndpoint == "Cannot read properties of undefined (reading 'authUrl')"
ErrStorage == "SQLITE_IOERR: disk I/O error"   \* the err sqlite3 hands to a callback
Ok == "ok"
NoChange == "ok: false"       \* update/delete resolved false (this.changes = 0)

VARIABLES
    zk,      \* zk[z]: the fields of ZkLogin instance z (config and session state)
    store,   \* the rows of table user_salts
    calls,   \* calls[z]: the processJWT call of z suspended in the salt store, or Null
    fresh,   \* fresh[z]: how many keys and randomness values (.key), salts (.salt) z drew
    last     \* the call that completed last: operation, session, outcome

vars == <<zk, store, calls, fresh, last>>

\* ------------------------------------------------------------ JWT codec
\* A token is a string: the record [chars |-> c], c a sequence whose elements
\* are the "." character or a run of base64 characters (one element per run).
\* A base64 run is the record [b64 |-> x]: x is the JSON value its bytes hold,
\* or NotJson.
B64(x) == [b64 |-> x]
Str(c) == [chars |-> c]

RECURSIVE SplitChars(_)
\* the runs between the dots (an empty run is <<>>)
SplitChars(c) ==
    IF c = <<>> THEN << <<>> >>
    ELSE LET rest == SplitChars(Tail(c))
         IN  IF Head(c) = Dot THEN << <<>> >> \o rest
             ELSE << <<Head(c)>> \o Head(rest) >> \o Tail(rest)

\* jwt.split('.')
Split(jwt) == SplitChars(jwt.chars)

Join3(h, p, s) == Str(<<h, Dot, p, Dot, s>>)

\* JSON.parse(Buffer.from(part, 'base64').toString()): the value, or Null when it throws
ParseSegment(part) ==
    IF Len(part) = 1 /\ part[1].b64 # NotJson THEN part[1].b64 ELSE Null

\* a check for at least three segments
isValidJWT_AtLeastThree(jwt) == Len(Split(jwt)) >= 3

isValidJWT(jwt) == Len(Split(jwt)) = 3

\* decodeJWT without `if (parts.length !== 3) throw ...`
decodeJWT_AnyLength(jwt) ==
    LET parts == Split(jwt)
    IN  IF Len(parts) < 3 THEN Null
        ELSE IF ParseSegment(parts[1]) = Null \/ ParseSegment(parts[2]) = Null THEN Null
        ELSE [header |-> ParseSegment(parts[1]),
              payload |-> ParseSegment(parts[2]),
              signature |-> parts[3],
              raw |-> parts]

\* decodeJWT: the decoded token, or Null when it throws
decodeJWT(jwt) ==
    LET parts == Split(jwt)
    IN  IF Len(parts) # 3 THEN Null
        ELSE IF ParseSegment(parts[1]) = Null \/ ParseSegment(parts[2]) = Null THEN Null
        ELSE [header |-> ParseSegment(parts[1]),
              payload |-> ParseSegment(parts[2]),
              signature |-> parts[3],
              raw |-> parts]

\* extractSubFromJWT without `if (!payload.sub) throw ...`
extractSubFromJWT_Unchecked(jwt) == [sub |-> ParseSegment(Split(jwt)[2]).sub]

\* extractSubFromJWT: the sub claim, or Null when it throws
extractSubFromJWT(jwt) ==
    LET parts == Split(jwt)
        payload == IF Len(parts) >= 2 THEN ParseSegment(parts[2]) ELSE Null
    IN  IF payload = Null THEN Null
        ELSE IF payload.sub = Absent \/ payload.sub = "" THEN Null   \* !payload.sub
        ELSE [sub |-> payload.sub]

Header == B64([alg |-> "RS256", typ |-> "JWT"])
Claims(n, sub, aud) == [nonce |-> n, sub |-> sub, aud |-> aud]
SignatureSegment == B64(NotJson)

\* ------------------------------------------------------ nonce and address
\* generateNonce(extendedEphemeralPublicKey, maxEpoch, randomness), and its
\* SHA-256 fallback over the same triple: a hash, modelled by its preimage.
generateNonce(pk, maxEpoch, randomness) ==
    [pk |-> pk, maxEpoch |-> maxEpoch, randomness |-> randomness]

\* The database's salts are 64 hex digits, the configured ones decimal strings.
\* generateSalt(): crypto.randomBytes(32).toString('hex'), the n-th random value of z
generateSalt(z, n) == [hex |-> <<z, n>>]
IsHex(salt) == "hex" \in DOMAIN salt
ConfigSalt(s) == [dec |-> s]

\* jwtToAddress(jwtToken, userSalt) and, when that throws on a hex salt,
\* computeZkLoginAddressFromSeed(BigInt('0x' + salt), 'sub', sub, aud): a hash
\* of salt, subject and audience, modelled by its preimage.
Address(salt, sub, aud) == [salt |-> salt, sub |-> sub, aud |-> aud]

\* jwtToAddress: BigInt(userSalt) throws on a hex string without 0x (Null)
jwtToAddress(jwt, salt) ==
    IF IsHex(salt) THEN Null
    ELSE Address(salt, decodeJWT(jwt).payload.sub, decodeJWT(jwt).payload.aud)

computeZkLoginAddressFromSeed(seed, name, sub, aud) == Address(seed, sub, aud)

\* processJWT lines 302-322: jwtToAddress, and the fallback when it throws
deriveUserAddress(jwt, salt) ==
    IF jwtToAddress(jwt, salt) # Null THEN jwtToAddress(jwt, salt)
    ELSE computeZkLoginAddressFromSeed(salt, "sub", decodeJWT(jwt).payload.sub,
                                       decodeJWT(jwt).payload.aud)

\* ------------------------------------------------------------- salt store
\* user_identifier TEXT UNIQUE NOT NULL: the INSERT fails when a row with the
\* same user_identifier exists, whatever its provider.
Row(u, p, salt) == [user_identifier |-> u, provider |-> p, custom_salt |-> salt]

\* a SELECT that matches the user_identifier alone
SelectSalt_AnyProvider(rows, u, p) == {r \in rows : r.user_identifier = u}

\* SELECT custom_salt FROM user_salts WHERE user_identifier = ? AND provider = ?
SelectSalt(rows, u, p) == {r \in rows : r.user_identifier = u /\ r.provider = p}

\* a table without the UNIQUE constraint
InsertAllowed_Unconstrained(rows, u, p) == TRUE

\* the INSERT passes the UNIQUE constraint of user_identifier
InsertAllowed(rows, u, p) == \A r \in rows : r.user_identifier # u

\* ----------------------------------------------------------- bookkeeping
\* A specification that reads no outcome starts with last = NotKept and
\* leaves it so.
NotKept == [op |-> "-", z |-> "-", res |-> "-"]

Completed(op, z, res) ==
    IF last = NotKept THEN last ELSE [op |-> op, z |-> z, res |-> res]

\* a request the server answered: res as above, body the fields of the JSON
\* response that callers read
Responded(op, z, res, body) ==
    IF last = NotKept THEN last ELSE [op |-> op, z |-> z, res |-> res, body |-> body]

\* ------------------------------------------------------------ construction
\* constructor, ending in reset(); decodedJWT and userSalt are not yet defined
\* (Null).  registration: what the server's session entry of the instance
\* holds about the sponsored mint (session.isRegistered, session.registrationTx,
\* session.nftObjectId).
\* keyScheme, maxEpoch and oauthFlow are the defaults of lines 64-66; configArg
\* keeps what the caller passed as config.maxEpoch (Null: nothing)
NewZkLogin(useDatabase, userSalt) ==
    [provider |-> "google", useDatabase |-> useDatabase, cfgUserSalt |-> ConfigSalt(userSalt),
     keyScheme |-> "ED25519", oauthFlow |-> "implicit", cfgMaxEpoch |-> DefaultMaxEpoch,
     configArg |-> [maxEpoch |-> Null],
     ephemeralKeyPair |-> Null, randomness |-> Null, nonce |-> Null,
     maxEpoch |-> Null, currentEpoch |-> Null, jwt |-> Null, decodedJWT |-> Null,
     userSalt |-> Null, userAddress |-> Null, zkLoginSignature |-> Null,
     registration |-> [isRegistered |-> FALSE, registrationTx |-> Null,
                       nftObjectId |-> Null]]

\* new ZkLogin({keyScheme, maxEpoch, oauthFlow}): keyScheme: config.keyScheme ||
\* 'ED25519', maxEpoch: config.maxEpoch || 10, oauthFlow: config.oauthFlow ||
\* 'implicit'.  An option not passed is Absent (Null for maxEpoch, else [n |-> w]).
Configure(s, keyScheme, maxEpoch, oauthFlow) ==
    [s EXCEPT !.keyScheme = IF keyScheme = Absent THEN "ED25519" ELSE keyScheme,
              !.cfgMaxEpoch = IF maxEpoch = Null THEN DefaultMaxEpoch
                              ELSE IF maxEpoch.n = 0 THEN DefaultMaxEpoch
                              ELSE maxEpoch.n,
              !.oauthFlow = IF oauthFlow = Absent THEN "implicit" ELSE oauthFlow,
              !.configArg = [maxEpoch |-> maxEpoch]]

\* new ZkLogin({useDatabase: true}) as the server creates it, and the legacy
\* configuration with a configured userSalt
Configs == {NewZkLogin(TRUE, "0")} \cup {NewZkLogin(FALSE, s) : s \in ConfiguredSalts}

Constructed(instances, kept) ==
    /\ zk \in instances
    /\ store = {}
    /\ calls = [z \in Sessions |-> Null]
    /\ fresh = [z \in Sessions |-> [key |-> 0, salt |-> 0]]
    /\ last = IF kept THEN [op |-> "new", z |-> "-", res |-> Ok] ELSE NotKept

Init == Constructed({f \in [Sessions -> Configs] : f["sB"] = NewZkLogin(TRUE, "0")}, TRUE)

\* reset(): the listed fields only
reset(z) ==
    /\ zk' = [zk EXCEPT ![z].ephemeralKeyPair = Null, ![z].randomness = Null,
                        ![z].nonce = Null, ![z].maxEpoch = Null, ![z].currentEpoch = Null,
                        ![z].jwt = Null, ![z].userAddress = Null,
                        ![z].zkLoginSignature = Null]
    /\ last' = Completed("reset", z, Ok)
    /\ UNCHANGED <<store, calls, fresh>>

\* ------------------------------------------------- Step 1: ephemeral key
\* the schemes generateEphemeralKeyPair with every scheme supported
SupportedKeySchemes_Any == {"ED25519", "Secp256k1", "RSA", "INVALID"}

\* this.config.keyScheme === 'ED25519' / 'Secp256k1'
SupportedKeySchemes == {"ED25519", "Secp256k1"}

\* a key generation that starts the session over, as reset() does
generateEphemeralKeyPair_Resetting(z) ==
    /\ fresh[z].key < MaxFresh
    /\ zk' = [zk EXCEPT ![z].ephemeralKeyPair = [keypair |-> <<z, fresh[z].key + 1>>],
                        ![z].randomness = Null, ![z].nonce = Null,
                        ![z].maxEpoch = Null, ![z].currentEpoch = Null,
                        ![z].jwt = Null, ![z].userAddress = Null,
                        ![z].zkLoginSignature = Null]
    /\ fresh' = [fresh EXCEPT ![z].key = @ + 1]
    /\ last' = Completed("generateEphemeralKeyPair", z, Ok)
    /\ UNCHANGED <<store, calls>>

generateEphemeralKeyPair(z) ==
    IF zk[z].keyScheme \in SupportedKeySchemes
    THEN /\ fresh[z].key < MaxFresh
         /\ LET kp == [keypair |-> <<z, fresh[z].key + 1>>]
            IN  /\ zk' = [zk EXCEPT ![z].ephemeralKeyPair = kp]
                /\ fresh' = [fresh EXCEPT ![z].key = @ + 1]
                /\ last' = Completed("generateEphemeralKeyPair", z, Ok)
         /\ UNCHANGED <<store, calls>>
    ELSE /\ last' = Completed("generateEphemeralKeyPair", z, ErrKeyScheme)
         /\ UNCHANGED <<zk, store, calls, fresh>>

\* ------------------------------------------------ Step 2: prepareForJWT
\* getCurrentEpoch(): the network's epoch, or the fallback when the fetch fails
getCurrentEpoch(fetched) == IF fetched = Null THEN FallbackEpoch ELSE fetched.epoch

\* `fetched` is what getLatestSuiSystemState() answers: an epoch, or Null when it fails
\* The session is configured with clientId and redirectUrl, as the server
\* configures it, so the checks of the required configuration pass.
prepareForJWT(z, provider, fetched) ==
    IF zk[z].ephemeralKeyPair = Null
    THEN /\ last' = Completed("prepareForJWT", z, ErrNoKeyPair)
         /\ UNCHANGED <<zk, store, calls, fresh>>
    ELSE /\ fresh[z].key < MaxFresh
         /\ LET randomness == [randomness |-> <<z, fresh[z].key + 1>>]
                currentEpoch == getCurrentEpoch(fetched)
                maxEpoch == currentEpoch + zk[z].cfgMaxEpoch
            IN  zk' = [zk EXCEPT
                    ![z].provider = IF provider # Absent THEN provider ELSE @,
                    ![z].randomness = randomness,
                    ![z].currentEpoch = [epoch |-> currentEpoch],
                    ![z].maxEpoch = [epoch |-> maxEpoch],
                    ![z].nonce = generateNonce(zk[z].ephemeralKeyPair, maxEpoch, randomness)]
         /\ fresh' = [fresh EXCEPT ![z].key = @ + 1]
         /\ last' = Completed("prepareForJWT", z, Ok)
         /\ UNCHANGED <<store, calls>>

\* --------------------------------------------------- Step 3: processJWT
\* The tokens a caller may hand to session z: well-formed ones carrying the
\* session's nonce or another one, with or without a sub claim, and malformed ones.
Tokens(z) ==
    {Join3(Header, B64(Claims(n, s, a)), SignatureSegment) :
        n \in ({zk[z].nonce} \ {Null}) \cup {BogusNonce},
        s \in PipelineSubjects \cup {Absent},
        a \in Audiences}
    \cup {Str(<<Header, Dot, B64(Claims(BogusNonce, "u1", "aud1"))>>),
          Join3(Header, B64(NotJson), SignatureSegment),
          Str(Join3(Header, B64(Claims(BogusNonce, "u1", "aud1")), SignatureSegment).chars
              \o <<Dot, SignatureSegment>>)}

\* processJWT without its precondition check
preparationMissing_Never(s) == FALSE

\* if (!this.randomness || !this.nonce) throw ...

preparationMissing(s) == s.randomness = Null \/ s.nonce = Null

\* salt and address kept in one place for all instances
processJWT_Return_Shared(z, jwtToken, userSalt) ==
    LET address == deriveUserAddress(jwtToken, userSalt)
    IN  /\ zk' = [y \in Sessions |->
                    [zk[y] EXCEPT !.userSalt = userSalt, !.userAddress = address]]
        /\ last' = Completed("processJWT", z, Ok)

\* lines 299-331: store the salt, derive the address, return
processJWT_Return(z, jwtToken, userSalt) ==
    LET address == deriveUserAddress(jwtToken, userSalt)
    IN  /\ zk' = [zk EXCEPT ![z].userSalt = userSalt, ![z].userAddress = address]
        /\ last' = Completed("processJWT", z, Ok)

\* up to `await this.saltDatabase.getOrCreateUserSalt(...)`, or to the end
\* when the salt is the configured one
processJWT(z, jwtToken) ==
    LET throw(msg) == last' = Completed("processJWT", z, msg)
        decoded == decodeJWT(jwtToken)
    IN  IF preparationMissing(zk[z])
        THEN throw(ErrNotPrepared) /\ UNCHANGED <<zk, store, calls, fresh>>
        ELSE IF ~isValidJWT(jwtToken)
        THEN throw(ErrJwtFormat) /\ UNCHANGED <<zk, store, calls, fresh>>
        ELSE IF decoded = Null
        THEN /\ zk' = [zk EXCEPT ![z].jwt = jwtToken]
             /\ throw(ErrDecode)
             /\ UNCHANGED <<store, calls, fresh>>
        ELSE IF decoded.payload.nonce # zk[z].nonce
        THEN /\ zk' = [zk EXCEPT ![z].jwt = jwtToken, ![z].decodedJWT = decoded]
             /\ throw(ErrNonceMismatch)
             /\ UNCHANGED <<store, calls, fresh>>
        ELSE IF extractSubFromJWT(jwtToken) = Null
        THEN /\ zk' = [zk EXCEPT ![z].jwt = jwtToken, ![z].decodedJWT = decoded]
             /\ throw(ErrMissingSub)
             /\ UNCHANGED <<store, calls, fresh>>
        ELSE IF zk[z].useDatabase
        THEN /\ calls[z] = Null
             /\ zk' = [zk EXCEPT ![z].jwt = jwtToken, ![z].decodedJWT = decoded]
             /\ calls' = [calls EXCEPT ![z] =
                    [pc |-> "select", jwtToken |-> jwtToken,
                     userIdentifier |-> extractSubFromJWT(jwtToken).sub,
                     provider |-> zk[z].provider, newSalt |-> Null]]
             /\ UNCHANGED <<store, fresh, last>>
        ELSE /\ zk' = [zk EXCEPT ![z].jwt = jwtToken, ![z].decodedJWT = decoded,
                                 ![z].userSalt = zk[z].cfgUserSalt,
                                 ![z].userAddress = deriveUserAddress(jwtToken, zk[z].cfgUserSalt)]
             /\ last' = Completed("processJWT", z, Ok)
             /\ UNCHANGED <<store, calls, fresh>>

\* getOrCreateUserSalt, the db.get callback: the row's salt resolves the call
\* (and processJWT runs to its end); without a row a salt is generated and
\* the INSERT is issued
getOrCreateUserSalt_Select(z) ==
    /\ calls[z] # Null
    /\ calls[z].pc = "select"
    /\ LET c == calls[z]
           rows == SelectSalt(store, c.userIdentifier, c.provider)
       IN  IF rows # {}
           THEN /\ processJWT_Return(z, c.jwtToken, (CHOOSE r \in rows : TRUE).custom_salt)
                /\ calls' = [calls EXCEPT ![z] = Null]
                /\ UNCHANGED <<store, fresh>>
           ELSE /\ fresh[z].salt < MaxSalts
                /\ calls' = [calls EXCEPT ![z].pc = "insert",
                                          ![z].newSalt = generateSalt(z, fresh[z].salt + 1)]
                /\ fresh' = [fresh EXCEPT ![z].salt = @ + 1]
                /\ UNCHANGED <<zk, store, last>>

\* getOrCreateUserSalt, the db.run callback of the INSERT
getOrCreateUserSalt_Insert(z) ==
    /\ calls[z] # Null
    /\ calls[z].pc = "insert"
    /\ LET c == calls[z]
       IN  IF InsertAllowed(store, c.userIdentifier, c.provider)
           THEN /\ store' = store \cup {Row(c.userIdentifier, c.provider, c.newSalt)}
                /\ processJWT_Return(z, c.jwtToken, c.newSalt)
           ELSE /\ last' = Completed("processJWT", z, ErrConstraint)
                /\ UNCHANGED <<zk, store>>
    /\ calls' = [calls EXCEPT ![z] = Null]
    /\ UNCHANGED fresh

\* processJWT when the awaited getOrCreateUserSalt falls back to the configured salt
processJWT_FallbackSalt(z, msg) ==
    processJWT_Return(z, calls[z].jwtToken, zk[z].cfgUserSalt)

\* processJWT when the awaited getOrCreateUserSalt rejects: the catch block
\* rethrows, this.userSalt and this.userAddress are not assigned
processJWT_Throw(z, msg) ==
    /\ last' = Completed("processJWT", z, msg)
    /\ UNCHANGED zk

\* getOrCreateUserSalt, a callback that gets an err (the database could not be
\* opened, the SELECT or the INSERT failed): reject(err)
getOrCreateUserSalt_Reject(z) ==
    /\ calls[z] # Null
    /\ processJWT_Throw(z, ErrStorage)
    /\ calls' = [calls EXCEPT ![z] = Null]
    /\ UNCHANGED <<store, fresh>>

\* ---------------------------------------------- salt rotation and removal
RotatedSalt == ConfigSalt("9")

\* an UPDATE whose WHERE clause names the user_identifier alone
updateUserSalt_BySubject(z, userIdentifier, provider, newSalt) ==
    LET rows == {r \in store : r.user_identifier = userIdentifier}
    IN  IF ~zk[z].useDatabase
        THEN /\ last' = Completed("updateUserSalt", z, ErrNoDatabase)
             /\ UNCHANGED <<zk, store, calls, fresh>>
        ELSE /\ store' = (store \ rows) \cup {[r EXCEPT !.custom_salt = newSalt] : r \in rows}
             /\ last' = Completed("updateUserSalt", z, IF rows # {} THEN Ok ELSE NoChange)
             /\ UNCHANGED <<zk, calls, fresh>>

\* ZkLogin.updateUserSalt -> UserSaltDatabase.updateUserSalt
updateUserSalt(z, userIdentifier, provider, newSalt) ==
    LET rows == SelectSalt(store, userIdentifier, provider)
    IN  IF ~zk[z].useDatabase
        THEN /\ last' = Completed("updateUserSalt", z, ErrNoDatabase)
             /\ UNCHANGED <<zk, store, calls, fresh>>
        ELSE /\ store' = (store \ rows) \cup {[r EXCEPT !.custom_salt = newSalt] : r \in rows}
             /\ last' = Completed("updateUserSalt", z, IF rows # {} THEN Ok ELSE NoChange)
             /\ UNCHANGED <<zk, calls, fresh>>

\* ZkLogin.deleteUserSalt -> UserSaltDatabase.deleteUserSalt
deleteUserSalt(z, userIdentifier, provider) ==
    LET rows == SelectSalt(store, userIdentifier, provider)
    IN  IF ~zk[z].useDatabase
        THEN /\ last' = Completed("deleteUserSalt", z, ErrNoDatabase)
             /\ UNCHANGED <<zk, store, calls, fresh>>
        ELSE /\ store' = store \ rows
             /\ last' = Completed("deleteUserSalt", z, IF rows # {} THEN Ok ELSE NoChange)
             /\ UNCHANGED <<zk, calls, fresh>>

\* -------------------------------------------------- Step 4: the signature
\* getZkLoginSignature({inputs, maxEpoch, userSignature}): the composite signature
getZkLoginSignature(inputs, maxEpoch, userSignature) ==
    [inputs |-> inputs, maxEpoch |-> maxEpoch, userSignature |-> userSignature]

\* the body of generateZkLoginSignature, run for operation `op`
SignAs(op, z) ==
    IF zk[z].ephemeralKeyPair = Null \/ zk[z].jwt = Null
    THEN /\ last' = Completed(op, z, ErrSetup)
         /\ UNCHANGED <<zk, store, calls, fresh>>
    ELSE /\ zk' = [zk EXCEPT ![z].zkLoginSignature =
                getZkLoginSignature(ZkProof, zk[z].maxEpoch,
                                    [signedBy |-> zk[z].ephemeralKeyPair])]
         /\ last' = Completed(op, z, Ok)
         /\ UNCHANGED <<store, calls, fresh>>

generateZkLoginSignature(z) == SignAs("generateZkLoginSignature", z)

\* createAndSignTransaction: builds the transaction, then generateZkLoginSignature
createAndSignTransaction(z) ==
    IF zk[z].userAddress = Null
    THEN /\ last' = Completed("createAndSignTransaction", z, ErrNoAddress)
         /\ UNCHANGED <<zk, store, calls, fresh>>
    ELSE SignAs("createAndSignTransaction", z)

\* ------------------------------------------------------- buildOAuthUrl
\* PROVIDERS[provider].authUrl
PROVIDERS ==
    [google |-> [authUrl |-> "https://accounts.google.com/o/oauth2/v2/auth",
                 scope |-> "openid email profile"],
     facebook |-> [authUrl |-> "https://www.facebook.com/v18.0/dialog/oauth",
                   scope |-> "openid email"],
     twitch |-> [authUrl |-> "https://id.twitch.tv/oauth2/authorize",
                 scope |-> "openid user:read:email"],
     apple |-> [authUrl |-> "https://appleid.apple.com/auth/authorize",
                scope |-> "openid email name"]]

\* buildOAuthUrl that sets the nonce parameter in either flow
OAuthUrl_NonceInEitherFlow(s, state) ==
    [authUrl |-> PROVIDERS[s.provider].authUrl,
     params |-> [client_id |-> "clientId", redirect_uri |-> "redirectUrl",
                 response_type |-> IF s.oauthFlow = "code" THEN "code" ELSE "id_token",
                 scope |-> "openid email profile", state |-> state,
                 response_mode |-> IF s.oauthFlow = "code" THEN "query" ELSE "fragment",
                 nonce |-> s.nonce]]

\* the URL, kept as its endpoint and its query parameters; `state` is the
\* sessionId argument.  params.set('nonce', this.nonce) in the implicit flow only.
OAuthUrl(s, state) ==
    LET isCodeFlow == s.oauthFlow = "code"
    IN  IF isCodeFlow
        THEN [authUrl |-> PROVIDERS[s.provider].authUrl,
              params |-> [client_id |-> "clientId", redirect_uri |-> "redirectUrl",
                          response_type |-> "code", scope |-> "openid email profile",
                          state |-> state, response_mode |-> "query"]]
        ELSE [authUrl |-> PROVIDERS[s.provider].authUrl,
              params |-> [client_id |-> "clientId", redirect_uri |-> "redirectUrl",
                          response_type |-> "id_token", scope |-> "openid email profile",
                          state |-> state, response_mode |-> "fragment",
                          nonce |-> s.nonce]]

\* provider.authUrl throws when PROVIDERS[this.config.provider] is undefined
buildOAuthUrl(z, sessionId) ==
    /\ last' = Completed("buildOAuthUrl", z,
                         IF zk[z].provider \in DOMAIN PROVIDERS
                         THEN OAuthUrl(zk[z], sessionId) ELSE [error |-> ErrNoEndpoint])
    /\ UNCHANGED <<zk, store, calls, fresh>>

\* ------------------------------------------------------------ the machine
\* what the network answers to getLatestSuiSystemState()
NetEpochs == {[epoch |-> 7]}

\* The session pipeline: every operation of one session, with every token.
Pipeline(z) ==
    \/ reset(z)
    \/ generateEphemeralKeyPair(z)
    \/ \E p \in Providers \cup {Absent}, e \in NetEpochs \cup {Null} :
          prepareForJWT(z, p, e)
    \/ \E t \in Tokens(z) : processJWT(z, t)
    \/ getOrCreateUserSalt_Select(z)
    \/ getOrCreateUserSalt_Insert(z)
    \/ generateZkLoginSignature(z)
    \/ createAndSignTransaction(z)

Next == Pipeline("sA")

Spec == Init /\ [][Next]_vars

\* The salt store under logins of all sessions: each session generates its key
\* and prepares once, and hands in tokens issued for its nonce.
IssuedTokens(z) ==
    {Join3(Header, B64(Claims(zk[z].nonce, s, a)), SignatureSegment) :
        s \in Subjects, a \in Audiences}

Login(z) ==
    \/ zk[z].ephemeralKeyPair = Null /\ generateEphemeralKeyPair(z)
    \/ /\ zk[z].ephemeralKeyPair # Null
       /\ zk[z].nonce = Null
       /\ \E p \in Providers : prepareForJWT(z, p, Null)
    \/ /\ zk[z].nonce # Null
       /\ \E t \in IssuedTokens(z) : processJWT(z, t)
    \/ getOrCreateUserSalt_Select(z)
    \/ getOrCreateUserSalt_Insert(z)

Rotation(z) ==
    \/ \E u \in Subjects, p \in Providers :
          updateUserSalt(z, u, p, RotatedSalt)
    \/ \E u \in Subjects, p \in Providers :
          deleteUserSalt(z, u, p)

\* rotation and removal are the same statements whichever session issues them
NextStore == (\E z \in Sessions : Login(z)) \/ Rotation("sA")

\* two database sessions, a database and a legacy session, or two legacy sessions
InitStore ==
    Constructed({f \in [Sessions -> Configs] :
                    f["sA"].useDatabase \/ ~f["sB"].useDatabase}, FALSE)

SpecStore == InitStore /\ [][NextStore]_vars

\* ====================================================================
\* Properties of the session pipeline (specification Spec)
\* ====================================================================
\* The state of the session as getState() shows it: 0 Created, 1 KeysGenerated,
\* 2 PreparedForAuth, 3 JWTProcessed (ReadyToSign once the proof is there),
\* 5 Signed.
Stage(s) ==
    IF s.zkLoginSignature # Null THEN 5
    ELSE IF s.userAddress # Null THEN 3
    ELSE IF s.nonce # Null THEN 2
    ELSE IF s.ephemeralKeyPair # Null THEN 1
    ELSE 0

Outcome(op, z, res) == [op |-> op, z |-> z, res |-> res]

\* a step that is a call of prepareForJWT / processJWT with some argument
PrepareStep(z) ==
    \E p \in Providers \cup {Absent}, e \in NetEpochs \cup {Null} : prepareForJWT(z, p, e)

ProcessStep(z) == \E t \in Tokens(z) : processJWT(z, t)

\* the step in which a processJWT call of z returns normally
ProcessJWTReturnsOk(z) ==
    /\ ProcessStep(z) \/ getOrCreateUserSalt_Select(z) \/ getOrCreateUserSalt_Insert(z)
    /\ calls'[z] = Null
    /\ last' = Outcome("processJWT", z, Ok)

\* C1: the operations of a session only move it forward through Created,
\* KeysGenerated, PreparedForAuth, JWTProcessed, ReadyToSign, Signed: none of
\* them takes the session to an earlier state, and each transition is executed
\* from its source state only, so a completed transition never runs again.
C1_ForwardNoCycles ==
    [][\A z \in Sessions :
        /\ ~reset(z) => Stage(zk'[z]) >= Stage(zk[z])
        /\ generateEphemeralKeyPair(z) => Stage(zk[z]) = 0
        /\ (PrepareStep(z) /\ last' = Outcome("prepareForJWT", z, Ok)) => Stage(zk[z]) = 1
        /\ ProcessJWTReturnsOk(z) => Stage(zk[z]) = 2
        /\ ((generateZkLoginSignature(z) \/ createAndSignTransaction(z)) /\ last'.res = Ok)
              => Stage(zk[z]) = 3
      ]_vars

\* C2: an operation invoked before the step it depends on has completed fails
\* with the precondition error of that operation: prepareForJWT without a key
\* pair, processJWT without a completed prepareForJWT, generateZkLoginSignature
\* without a processed JWT, createAndSignTransaction without a user address.
C2_OutOfOrderFails ==
    [][\A z \in Sessions :
        /\ (zk[z].ephemeralKeyPair = Null /\ PrepareStep(z))
              => last' = Outcome("prepareForJWT", z, ErrNoKeyPair)
        /\ (zk[z].nonce = Null /\ ProcessStep(z))
              => last' = Outcome("processJWT", z, ErrNotPrepared)
        /\ (zk[z].userAddress = Null /\ generateZkLoginSignature(z))
              => last' = Outcome("generateZkLoginSignature", z, ErrSetup)
        /\ (zk[z].userAddress = Null /\ createAndSignTransaction(z))
              => last' = Outcome("createAndSignTransaction", z, ErrNoAddress)
      ]_vars

\* C3: while prepareForJWT has not completed, processJWT fails with the
\* precondition error for every token (not with a nonce comparison against an
\* undefined nonce), and records no JWT, salt or address: the session, the
\* store and the pending calls are as before.
C3_ProcessBeforePrepare ==
    [][\A z \in Sessions :
        (zk[z].nonce = Null /\ ProcessStep(z))
            => /\ last' = Outcome("processJWT", z, ErrNotPrepared)
               /\ zk' = zk /\ store' = store /\ calls' = calls
      ]_vars

C3_Witness ==
    /\ last = Outcome("processJWT", "sA", ErrNotPrepared)
    /\ Stage(zk["sA"]) = 1
    /\ zk["sA"].jwt = Null /\ zk["sA"].userAddress = Null

\* the token is structurally valid: three segments, header and payload decodable
StructurallyValid(t) == isValidJWT(t) /\ decodeJWT(t) # Null

\* the step is processJWT(t) of session z in PreparedForAuth, t structurally
\* valid (processJWT keeps such a token in this.jwt, whatever the outcome)
ProcessesValidToken(z, t) ==
    /\ Stage(zk[z]) = 2
    /\ t # Null
    /\ StructurallyValid(t)
    /\ processJWT(z, t)

C5_StoredJwtNonce ==
    \A z \in Sessions :
        (zk[z].jwt # Null /\ decodeJWT(zk[z].jwt) # Null)
            => decodeJWT(zk[z].jwt).payload.nonce = zk[z].nonce

\* ====================================================================
\* Properties of the salt store (specification SpecStore)
\* ====================================================================
\* the records of the pair (u, p)
RecordsOf(rows, u, p) == {r \in rows : r.user_identifier = u /\ r.provider = p}

\* the step in which the getOrCreateUserSalt call of z ends: its promise is
\* resolved or rejected, and processJWT runs to its end
SaltCallEnds(z) ==
    /\ calls[z] # Null
    /\ calls'[z] = Null
    /\ getOrCreateUserSalt_Select(z) \/ getOrCreateUserSalt_Insert(z)

\* ... and it is resolved: with the salt of the row found, or with the new salt
\* once its row is in the table.  processJWT keeps the salt in this.userSalt.
SaltCallReturns(z) ==
    /\ SaltCallEnds(z)
    /\ calls[z].pc = "insert" => \E r \in store' : r.custom_salt = calls[z].newSalt

ReturnsRecordOfItsPair(z) ==
    /\ SaltCallReturns(z)
    /\ \E r \in RecordsOf(store', calls[z].userIdentifier, calls[z].provider) :
           zk'[z].userSalt = r.custom_salt

\* C6: concurrent getOrCreateUserSalt calls for one (subject, provider) key
\* without a record: a call that found no record, and meets the record a
\* concurrent call created meanwhile, still ends with exactly one record for
\* the key in the store and returns that record's salt, as every other call.
C6_ConcurrentCallsAgree ==
    [][\A z \in Sessions :
        (/\ SaltCallEnds(z)
         /\ calls[z].pc = "insert"
         /\ RecordsOf(store, calls[z].userIdentifier, calls[z].provider) # {})
            => /\ Cardinality(RecordsOf(store', calls[z].userIdentifier,
                                        calls[z].provider)) = 1
               /\ ReturnsRecordOfItsPair(z)
      ]_vars

\* C7: getOrCreateUserSalt is idempotent.  A call that no other call for its
\* pair overtakes returns a salt and leaves it as the record of the pair; the
\* call that follows finds that record, returns the identical salt, generates
\* no salt and leaves the store as it is.
C7_Idempotent ==
    [][\A z \in Sessions :
        /\ (/\ SaltCallEnds(z)
            /\ calls[z].pc = "insert"
            /\ RecordsOf(store, calls[z].userIdentifier, calls[z].provider) = {})
              => ReturnsRecordOfItsPair(z)
        /\ (/\ SaltCallEnds(z)
            /\ calls[z].pc = "select")
              => /\ ReturnsRecordOfItsPair(z)
                 /\ fresh' = fresh
                 /\ store' = store
      ]_vars

\* C8: the key of the store is the (subject, provider) pair.  No pair has more
\* than one record, and a pair without a record gets one when the INSERT for
\* it runs, whatever records other pairs hold (the same subject under another
\* provider included).
C8_PairIsKey ==
    [][/\ \A u \in Subjects, p \in Providers : Cardinality(RecordsOf(store', u, p)) <= 1
       /\ \A z \in Sessions :
            (/\ calls[z] # Null
             /\ calls[z].pc = "insert"
             /\ RecordsOf(store, calls[z].userIdentifier, calls[z].provider) = {}
             /\ getOrCreateUserSalt_Insert(z))
               => Row(calls[z].userIdentifier, calls[z].provider, calls[z].newSalt)
                      \in store'
      ]_vars

\* the step in which a processJWT call of z returns normally, when every token
\* handed in is one issued for the session's nonce
ProcessJWTReturns(z) ==
    \/ SaltCallReturns(z)
    \/ /\ ~zk[z].useDatabase
       /\ zk[z].nonce # Null
       /\ \E t \in IssuedTokens(z) : processJWT(z, t)

\* the address y holds was derived for the same subject and audience as the
\* one z derives in this step
SameIdentity(y, z) ==
    /\ zk[y].userAddress # Null
    /\ zk[y].userAddress.sub = zk'[z].userAddress.sub
    /\ zk[y].userAddress.aud = zk'[z].userAddress.aud

\* the salt record y's address was derived from has not been updated or deleted
SaltUntouched(y) ==
    zk[y].useDatabase
        => \E r \in store : /\ r.user_identifier = zk[y].userAddress.sub
                            /\ r.custom_salt = zk[y].userSalt

\* both calls take the salt from the same source: the store under the same
\* provider, or the same configured userSalt
SameSaltSource(y, z) ==
    \/ /\ zk[y].useDatabase /\ zk[z].useDatabase
       /\ calls[z] # Null
       /\ zk[y].provider = calls[z].provider
    \/ /\ ~zk[y].useDatabase /\ ~zk[z].useDatabase
       /\ zk[y].cfgUserSalt = zk[z].cfgUserSalt

C10_SessionSaltIsRecord ==
    [][\A z \in Sessions :
        /\ SaltCallReturns(z)
              => /\ ReturnsRecordOfItsPair(z)
                 /\ Cardinality(RecordsOf(store', calls[z].userIdentifier,
                                          calls[z].provider)) = 1
                 /\ zk'[z].userAddress.salt = zk'[z].userSalt
                 /\ zk'[z].userAddress.sub = calls[z].userIdentifier
        /\ (/\ SaltCallEnds(z)
            /\ RecordsOf(store, calls[z].userIdentifier, calls[z].provider) # {}
            /\ calls[z].pc = "select")
              => /\ \E r \in RecordsOf(store, calls[z].userIdentifier, calls[z].provider) :
                        zk'[z].userSalt = r.custom_salt
                 /\ store' = store
      ]_vars

C10_Witness ==
    /\ zk["sB"].useDatabase
    /\ calls["sB"] = Null
    /\ zk["sB"].userAddress # Null
    /\ IsHex(zk["sB"].userSalt)
    /\ Row(zk["sB"].userAddress.sub, zk["sB"].provider, zk["sB"].userSalt) \in store
    /\ zk["sA"].userSalt = zk["sB"].userSalt

\* ====================================================================
\* Failures of the salt store (specification SpecOutage)
\* ====================================================================
\* Logins of the database sessions against a store whose statements may fail,
\* with the outcome of every call kept.
InitOutage == Constructed({[z \in Sessions |-> NewZkLogin(TRUE, "0")]}, TRUE)

NextOutage ==
    \E z \in Sessions : Login(z) \/ getOrCreateUserSalt_Reject(z)

SpecOutage == InitOutage /\ [][NextOutage]_vars

\* C11: when the salt store fails while processJWT waits for it in database
\* mode (the database cannot be opened, the SELECT or the INSERT fails),
\* processJWT fails with the store's error; no salt is put in its place and no
\* address is derived: the session's salt and address, and the store, are
\* what they were.
C11_StoreErrorPropagates ==
    [][\A z \in Sessions :
        (/\ calls[z] # Null
         /\ calls'[z] = Null
         /\ getOrCreateUserSalt_Reject(z)
            \/ (getOrCreateUserSalt_Insert(z)
                /\ \A r \in store' : r.custom_salt # calls[z].newSalt))
            => /\ last'.op = "processJWT" /\ last'.z = z
               /\ last'.res \in {ErrStorage, ErrConstraint}
               /\ zk'[z].userSalt = zk[z].userSalt
               /\ zk'[z].userAddress = zk[z].userAddress
               /\ store' = store
      ]_vars

C11_Witness ==
    /\ last = Outcome("processJWT", "sA", ErrStorage)
    /\ calls["sA"] = Null
    /\ zk["sA"].useDatabase
    /\ zk["sA"].jwt # Null
    /\ zk["sA"].userSalt = Null
    /\ zk["sA"].userAddress = Null

\* ====================================================================
\* Sessions under every configuration (specification SpecConfig)
\* ====================================================================
MaxWindow == 2      \* the largest config.maxEpoch a caller passes
MaxNetEpoch == 2    \* the largest epoch the network reports

KeySchemes == {"ED25519", "Secp256k1", "RSA"}
OAuthFlows == {"implicit", "code"}
EpochWindows == {[n |-> w] : w \in 0..MaxWindow}
ReportedEpochs == {[epoch |-> e] : e \in 0..MaxNetEpoch}

\* one session constructed with every combination of the options, and its
\* first two steps with every answer of the network
InitConfig ==
    Constructed({f \in [Sessions -> {Configure(NewZkLogin(FALSE, "0"), k, w, o) :
                                        k \in KeySchemes \cup {Absent},
                                        w \in EpochWindows \cup {Null},
                                        o \in OAuthFlows \cup {Absent}}] :
                    f["sB"] = NewZkLogin(FALSE, "0")}, TRUE)

\* The token the provider issues in response to the authorization URL of s:
\* its payload carries the nonce parameter of the URL, and no nonce claim
\* (undefined) when the URL has no nonce parameter.
IssuedToken(s) ==
    LET params == OAuthUrl(s, "sA").params
    IN  Join3(Header,
              B64(Claims(IF "nonce" \in DOMAIN params THEN params.nonce ELSE Null,
                         "u1", "aud1")),
              SignatureSegment)

NextConfig ==
    \/ generateEphemeralKeyPair("sA")
    \/ \E p \in Providers \cup {Absent}, e \in ReportedEpochs \cup {Null} :
          prepareForJWT("sA", p, e)
    \/ buildOAuthUrl("sA", "sA")
    \/ processJWT("sA", IssuedToken(zk["sA"]))

SpecConfig == InitConfig /\ [][NextConfig]_vars

\* C12: generateEphemeralKeyPair of a session whose key scheme is neither
\* ED25519 nor Secp256k1 fails with the unsupported-key-scheme error and
\* records nothing: the session is as it was, in Created.
C12_UnsupportedKeyScheme ==
    [][\A z \in Sessions :
        (zk[z].keyScheme \notin {"ED25519", "Secp256k1"} /\ generateEphemeralKeyPair(z))
            => /\ last'.op = "generateEphemeralKeyPair"
               /\ last'.res = ErrKeyScheme
               /\ zk' = zk
               /\ Stage(zk'[z]) = 0
               /\ zk'[z].ephemeralKeyPair = Null
      ]_vars

C12_Witness ==
    /\ last.op = "generateEphemeralKeyPair"
    /\ last.res = ErrKeyScheme
    /\ zk["sA"].keyScheme = "RSA"
    /\ zk["sA"].ephemeralKeyPair = Null

\* the step is a prepareForJWT of z that succeeds, the network answering `fetched`
PrepareSucceeds(z, fetched) ==
    /\ zk[z].ephemeralKeyPair # Null
    /\ \E p \in Providers \cup {Absent} : prepareForJWT(z, p, fetched)

\* the epoch window the session was configured with: config.maxEpoch as the
\* caller passed it, the default when the caller passed none
ConfiguredWindow(s) ==
    IF s.configArg.maxEpoch = Null THEN DefaultMaxEpoch ELSE s.configArg.maxEpoch.n

\* C13: for every current epoch e and every configured epoch window w, 0
\* included, a successful prepareForJWT leaves maxEpoch = e + w on the session,
\* and that maxEpoch is the one bound into the nonce.
C13_MaxEpochIsSum ==
    [][\A z \in Sessions : \A e \in ReportedEpochs :
        PrepareSucceeds(z, e)
            => /\ zk'[z].currentEpoch = [epoch |-> e.epoch]
               /\ zk'[z].maxEpoch = [epoch |-> e.epoch + ConfiguredWindow(zk[z])]
               /\ zk'[z].nonce.maxEpoch = zk'[z].maxEpoch.epoch
      ]_vars

\* C14: when the fetch of the current epoch fails, prepareForJWT does not
\* abort: it takes the fallback epoch as currentEpoch and completes, the
\* session is in PreparedForAuth and maxEpoch = fallback epoch + epoch window.
C14_FallbackEpoch ==
    [][\A z \in Sessions :
        PrepareSucceeds(z, Null)
            => /\ last'.op = "prepareForJWT" /\ last'.res = Ok
               /\ zk'[z].currentEpoch = [epoch |-> FallbackEpoch]
               /\ Stage(zk'[z]) = 2
               /\ zk'[z].maxEpoch = [epoch |-> FallbackEpoch + ConfiguredWindow(zk[z])]
      ]_vars

\* C15: the authorization URL built after prepareForJWT follows the OAuth
\* flow: in the implicit flow it asks for an id_token and carries a nonce
\* parameter equal to the session's nonce; in the authorization-code flow it
\* asks for a code and carries no nonce parameter.
C15_UrlFollowsFlow ==
    \A z \in Sessions :
        (last.op = "buildOAuthUrl" /\ last.z = z /\ zk[z].nonce # Null)
            => LET params == last.res.params
               IN  IF zk[z].oauthFlow = "code"
                   THEN /\ params.response_type = "code"
                        /\ "nonce" \notin DOMAIN params
                   ELSE /\ zk[z].oauthFlow = "implicit"
                        /\ params.response_type = "id_token"
                        /\ "nonce" \in DOMAIN params
                        /\ params.nonce = zk[z].nonce

C15_Witness ==
    /\ last.op = "buildOAuthUrl"
    /\ zk["sA"].oauthFlow = "code"
    /\ zk["sA"].nonce # Null
    /\ last.res.params.response_type = "code"

\* ====================================================================
\* The JWT codec on every short string (specification SpecCodec)
\* ====================================================================
MaxTokenLen == 5    \* dots and base64 runs in a token

\* what a string is made of: dots, and runs whose bytes are a JSON object with
\* a sub claim, with an empty one, without one, or no JSON at all
Runs ==
    {Dot, B64(Claims(BogusNonce, "u1", "aud1")), B64(Claims(BogusNonce, "", "aud1")),
     B64(Claims(BogusNonce, Absent, "aud1")), B64(NotJson)}

Strings == {Str(c) : c \in UNION {[1..n -> Runs] : n \in 0..MaxTokenLen}}

\* one call of a codec function on one string; `last` keeps argument and result
CodecCall(op, jwt, out) ==
    /\ last' = [op |-> op, z |-> "-", res |-> [arg |-> jwt, out |-> out]]
    /\ UNCHANGED <<zk, store, calls, fresh>>

NoCallYet == last.op = "new"

NextCodec ==
    \/ NoCallYet /\ \E jwt \in Strings :
          CodecCall("isValidJWT", jwt, [bool |-> isValidJWT(jwt)])
    \/ NoCallYet /\ \E jwt \in Strings :
          CodecCall("decodeJWT", jwt, decodeJWT(jwt))
    \/ NoCallYet /\ \E jwt \in Strings :
          CodecCall("extractSubFromJWT", jwt, extractSubFromJWT(jwt))

InitCodec == Constructed({[z \in Sessions |-> NewZkLogin(FALSE, "0")]}, TRUE)

SpecCodec == InitCodec /\ [][NextCodec]_vars

\* the number of dot-separated segments of a string: its dots, plus one
NumSegments(jwt) == 1 + Cardinality({i \in 1..Len(jwt.chars) : jwt.chars[i] = Dot})

\* the run between the (k-1)-th and the k-th dot
SegmentAt(jwt, k) ==
    LET c == jwt.chars
        dots == {i \in 1..Len(c) : c[i] = Dot}
        from == IF k = 1 THEN 1
                ELSE 1 + CHOOSE i \in dots : Cardinality({j \in dots : j < i}) = k - 2
        to == IF k = NumSegments(jwt) THEN Len(c)
              ELSE (CHOOSE i \in dots : Cardinality({j \in dots : j < i}) = k - 1) - 1
    IN  SubSeq(c, from, to)

\* the segment is the base64 of a JSON text
IsJson(segment) == Len(segment) = 1 /\ segment[1] # B64(NotJson)

\* C16: isValidJWT accepts a token exactly when it has three dot-separated
\* segments: it rejects 1, 2, 4 and more segments and accepts 3.
C16_ExactlyThreeSegments ==
    last.op = "isValidJWT"
        => /\ last.res.out.bool <=> NumSegments(last.res.arg) = 3
           /\ NumSegments(last.res.arg) \in {1, 2} => ~last.res.out.bool
           /\ NumSegments(last.res.arg) >= 4 => ~last.res.out.bool

C16_Witness ==
    /\ last.op = "isValidJWT"
    /\ NumSegments(last.res.arg) = 4
    /\ ~last.res.out.bool

\* the token is malformed: not three segments, or header or payload no JSON
Malformed(jwt) ==
    \/ NumSegments(jwt) # 3
    \/ ~IsJson(SegmentAt(jwt, 1))
    \/ ~IsJson(SegmentAt(jwt, 2))

\* what decodeJWT returns for a token that is not malformed
Decoded(jwt, out) ==
    /\ out # Null
    /\ out.header = SegmentAt(jwt, 1)[1].b64
    /\ out.payload = SegmentAt(jwt, 2)[1].b64
    /\ out.signature = SegmentAt(jwt, 3)
    /\ out.raw = <<SegmentAt(jwt, 1), SegmentAt(jwt, 2), SegmentAt(jwt, 3)>>

\* the token has a payload segment that is JSON
HasPayload(jwt) == NumSegments(jwt) >= 2 /\ IsJson(SegmentAt(jwt, 2))

\* C17 (as claimed): decodeJWT fails whenever the token is malformed and
\* otherwise returns header, payload and the raw segments; extractSubFromJWT
\* fails whenever the payload has no sub claim and otherwise returns the sub
\* value.
C17_CodecContract ==
    LET jwt == last.res.arg
        out == last.res.out
    IN  /\ last.op = "decodeJWT"
              => IF Malformed(jwt) THEN out = Null ELSE Decoded(jwt, out)
        /\ last.op = "extractSubFromJWT"
              => IF ~HasPayload(jwt) THEN out = Null
                 ELSE IF SegmentAt(jwt, 2)[1].b64.sub = Absent THEN out = Null
                 ELSE out = [sub |-> SegmentAt(jwt, 2)[1].b64.sub]

\* C17 (amended): decodeJWT fails whenever the token is malformed and otherwise
\* returns header, payload and the raw segments; extractSubFromJWT fails
\* whenever the payload has no sub claim or an empty one, and otherwise
\* returns the sub value, whatever the number of segments after the payload.
C17_CodecContractFalsySub ==
    LET jwt == last.res.arg
        out == last.res.out
    IN  /\ last.op = "decodeJWT"
              => IF Malformed(jwt) THEN out = Null ELSE Decoded(jwt, out)
        /\ last.op = "extractSubFromJWT"
              => IF ~HasPayload(jwt) THEN out = Null
                 ELSE IF SegmentAt(jwt, 2)[1].b64.sub \in {Absent, ""} THEN out = Null
                 ELSE out = [sub |-> SegmentAt(jwt, 2)[1].b64.sub]

C17_Witness ==
    /\ last.op = "extractSubFromJWT"
    /\ HasPayload(last.res.arg)
    /\ SegmentAt(last.res.arg, 2)[1].b64.sub = ""
    /\ last.res.out = Null

\* ------------------------------------------------------------- getState
\* BigInt.prototype.toString(): the decimal digits of the randomness value
BigIntToString(r) == [decimal |-> r.randomness]

\* keypair.getPublicKey().toSuiAddress(): a hash of the public key
toSuiAddress(kp) == [suiAddress |-> [publicKey |-> kp.keypair]]

\* getJWTClaims() of a session holding a token: the claims, or Null when
\* decodeJWT throws
getJWTClaims(s) ==
    LET decoded == decodeJWT(s.jwt)
    IN  IF decoded = Null THEN Null
        ELSE [alg |-> decoded.header.alg, typ |-> decoded.header.typ,
              aud |-> decoded.payload.aud, sub |-> decoded.payload.sub,
              nonce |-> decoded.payload.nonce,
              rawHeader |-> decoded.raw[1], rawPayload |-> decoded.raw[2],
              rawSignature |-> decoded.raw[3]]

\* getState(): the snapshot, or ErrDecode when getJWTClaims throws
getState(s) ==
    IF s.jwt # Null /\ getJWTClaims(s) = Null THEN [error |-> ErrDecode]
    ELSE [hasEphemeralKeyPair |-> s.ephemeralKeyPair # Null,
          hasRandomness |-> s.randomness # Null,
          hasNonce |-> s.nonce # Null,
          hasJWT |-> s.jwt # Null,
          hasDecodedJWT |-> s.decodedJWT # Null,
          hasUserAddress |-> s.userAddress # Null,
          hasZkLoginSignature |-> s.zkLoginSignature # Null,
          ephemeralPublicKey |-> IF s.ephemeralKeyPair # Null
                                 THEN toSuiAddress(s.ephemeralKeyPair) ELSE Null,
          randomness |-> IF s.randomness # Null
                         THEN BigIntToString(s.randomness) ELSE Null,
          nonce |-> s.nonce,
          currentEpoch |-> s.currentEpoch,
          maxEpoch |-> s.maxEpoch,
          jwtClaims |-> IF s.jwt # Null THEN getJWTClaims(s) ELSE Null,
          config |-> [provider |-> s.provider, keyScheme |-> s.keyScheme]]

\* the fields of the snapshot that carry a value of the session
ValueFields ==
    {"ephemeralPublicKey", "randomness", "nonce", "currentEpoch", "maxEpoch", "jwtClaims"}

\* the snapshot reports which fields of s are populated
ReportsPopulated(snap, s) ==
    /\ snap.hasEphemeralKeyPair <=> s.ephemeralKeyPair # Null
    /\ snap.hasRandomness <=> s.randomness # Null
    /\ snap.hasNonce <=> s.nonce # Null
    /\ snap.hasJWT <=> s.jwt # Null
    /\ snap.hasUserAddress <=> s.userAddress # Null
    /\ snap.hasZkLoginSignature <=> s.zkLoginSignature # Null

\* a field of the snapshot holds the key pair (with its private key)
ContainsPrivateKey(snap, s) ==
    /\ s.ephemeralKeyPair # Null
    /\ \E f \in ValueFields : snap[f] = s.ephemeralKeyPair

\* a field of the snapshot holds the randomness, as the value or as its digits
ContainsRandomness(snap, s) ==
    /\ s.randomness # Null
    /\ \E f \in ValueFields : snap[f] \in {s.randomness, BigIntToString(s.randomness)}

\* C18: in every reachable session state, the snapshot getState() returns
\* reports which fields are populated and contains neither the ephemeral
\* private key nor the raw randomness.
C18_SnapshotHidesSecrets ==
    \A z \in Sessions :
        LET snap == getState(zk[z])
        IN  "error" \notin DOMAIN snap
               => /\ ReportsPopulated(snap, zk[z])
                  /\ ~ContainsPrivateKey(snap, zk[z])
                  /\ ~ContainsRandomness(snap, zk[z])

\* ====================================================================
\* Rotation and removal of salts, with the outcome of each call kept: session
\* sB logs in against the database while salts are updated and deleted
\* through session sA.
\* ====================================================================
NextRotation == Login("sB") \/ Rotation("sA")

SpecRotation == InitOutage /\ [][NextRotation]_vars

\* the records of every pair but (u, p)
RecordsOfOthers(rows, u, p) == rows \ RecordsOf(rows, u, p)

\* what updateUserSalt(u, p, newSalt) must have done
UpdateReports(u, p, newSalt) ==
    /\ last'.res \in {Ok, NoChange}
    /\ last'.res = Ok <=> RecordsOf(store, u, p) # {}
    /\ last'.res = Ok => {r.custom_salt : r \in RecordsOf(store', u, p)} = {newSalt}
    /\ last'.res = NoChange => RecordsOf(store', u, p) = {}
    /\ RecordsOfOthers(store', u, p) = RecordsOfOthers(store, u, p)

\* what deleteUserSalt(u, p) must have done
DeleteReports(u, p) ==
    /\ last'.res \in {Ok, NoChange}
    /\ last'.res = Ok <=> RecordsOf(store, u, p) # {}
    /\ RecordsOf(store', u, p) = {}
    /\ RecordsOfOthers(store', u, p) = RecordsOfOthers(store, u, p)

\* C19: updateUserSalt(u, p, newSalt) returns true exactly when a record of
\* (u, p) existed, and then the record of (u, p) holds newSalt; it returns
\* false without creating a record otherwise.  deleteUserSalt(u, p) returns
\* true exactly when a record of (u, p) existed, and false otherwise; no
\* record of (u, p) remains.  Neither touches the records of other pairs.
C19_UpdateDeleteReport ==
    [][\A u \in Subjects, p \in Providers :
          /\ updateUserSalt("sA", u, p, RotatedSalt) => UpdateReports(u, p, RotatedSalt)
          /\ deleteUserSalt("sA", u, p) => DeleteReports(u, p)]_vars

\* a salt was rotated, the next login of the pair got the rotated salt, and
\* the record was then deleted
C19_Witness ==
    /\ last.op = "deleteUserSalt"
    /\ last.res = Ok
    /\ store = {}
    /\ zk["sB"].userSalt = RotatedSalt

\* ====================================================================
\* Independence of the sessions (SpecOutage: the logins of both sessions
\* interleaved)
\* ====================================================================
\* nothing of session y changes: its fields, its suspended call, its draws
SessionUntouched(y) ==
    /\ zk'[y] = zk[y]
    /\ calls'[y] = calls[y]
    /\ fresh'[y] = fresh[y]

\* C20: an operation on one session leaves every field of the other session
\* unchanged, in every interleaving of the operations of the two sessions; what
\* the sessions share is the table of salts.
C20_SessionsIndependent ==
    [][\A z \in Sessions :
          Login(z) \/ getOrCreateUserSalt_Reject(z)
             => \A y \in Sessions \ {z} : SessionUntouched(y)]_vars

\* both sessions logged in against the shared table, as different subjects
C20_Witness ==
    /\ zk["sA"].userAddress # Null /\ zk["sB"].userAddress # Null
    /\ zk["sA"].userAddress # zk["sB"].userAddress
    /\ zk["sA"].jwt # zk["sB"].jwt
    /\ Cardinality(store) = 2

\* ====================================================================
\* Failures inside a step (Spec)
\* ====================================================================
\* the processJWT call of z that completed last returned normally
ProcessJWTSucceeded(z) ==
    /\ last.op = "processJWT"
    /\ last.z = z
    /\ last.res = Ok
    /\ calls[z] = Null

\* the call jwtToAddress(jwtToken, userSalt) of that processJWT threw
AddressDerivationFailed(z) == jwtToAddress(zk[z].jwt, zk[z].userSalt) = Null

\* C21: the epoch fetch is the only call whose failure a step recovers from:
\* when the address derivation called inside processJWT fails, processJWT
\* fails, so a processJWT that returned normally had no failed derivation.
C21_OnlyEpochFetchRecovered ==
    \A z \in Sessions : ProcessJWTSucceeded(z) => ~AddressDerivationFailed(z)

\* ====================================================================
\* The result of prepareForJWT (SpecConfig)
\* ====================================================================
\* what prepareForJWT returns (lines 209-215), read from the fields it has set
prepareForJWT_Result(s) ==
    [success |-> TRUE,
     randomness |-> BigIntToString(s.randomness),
     nonce |-> s.nonce,
     currentEpoch |-> s.currentEpoch,
     maxEpoch |-> s.maxEpoch]

\* the prepareForJWT call of z that completed last returned normally
PrepareForJWTSucceeded(z) ==
    /\ last.op = "prepareForJWT"
    /\ last.z = z
    /\ last.res = Ok

\* C22: for every supported provider, the result of a successful prepareForJWT
\* contains the randomness, the nonce and an OAuth URL (oauthUrl) that points
\* at the authorization endpoint of the session's provider.
C22_PrepareReturnsOAuthUrl ==
    \A z \in Sessions :
        PrepareForJWTSucceeded(z)
           => LET result == prepareForJWT_Result(zk[z])
              IN  /\ {"randomness", "nonce", "oauthUrl"} \subseteq DOMAIN result
                  /\ result.oauthUrl.authUrl = PROVIDERS[zk[z].provider].authUrl

\* ====================================================================
\* Construction (SpecConstruct): new ZkLogin(config) with every combination
\* of clientId, redirectUrl, provider and keyScheme passed or left out,
\* followed by key generation, prepareForJWT with every provider argument
\* and buildOAuthUrl on the instance constructed
\* ====================================================================
ErrClientId == "clientId is required"
ErrRedirectUrl == "redirectUrl is required"
ErrProvider == "Unsupported provider"

\* the config objects a caller passes; Absent: the option is not passed
ConfigArgs ==
    [clientId : {Absent, "test-client"},
     redirectUrl : {Absent, "http://localhost:3000/callback"},
     provider : {Absent, "google", "facebook", "github"},
     keyScheme : KeySchemes \cup {Absent}]

\* constructor(config): the instance, or the error it throws (lines 72-81)
constructor(config) ==
    LET provider == IF config.provider = Absent THEN "google" ELSE config.provider
    IN  IF config.clientId = Absent THEN [error |-> ErrClientId]
        ELSE IF config.redirectUrl = Absent THEN [error |-> ErrRedirectUrl]
        ELSE IF provider \notin DOMAIN PROVIDERS THEN [error |-> ErrProvider]
        ELSE [instance |->
                [Configure(NewZkLogin(FALSE, "0"), config.keyScheme, Null, Absent)
                    EXCEPT !.provider = provider]]

\* z = new ZkLogin(config): z names the new instance unless the constructor throws
construct(z, config) ==
    LET made == constructor(config)
    IN  /\ IF "error" \in DOMAIN made
           THEN /\ last' = Completed("constructor", z, made.error)
                /\ UNCHANGED zk
           ELSE /\ zk' = [zk EXCEPT ![z] = made.instance]
                /\ last' = Completed("constructor", z, Ok)
        /\ UNCHANGED <<store, calls, fresh>>

\* the provider argument of prepareForJWT: none, a supported or another name
ProviderArgs == Providers \cup {Absent, "github"}

NextConstruct ==
    \/ \E config \in ConfigArgs : construct("sA", config)
    \/ generateEphemeralKeyPair("sA")
    \/ \E provider \in ProviderArgs : prepareForJWT("sA", provider, Null)
    \/ buildOAuthUrl("sA", "sA")

SpecConstruct == InitCodec /\ [][NextConstruct]_vars

\* a configuration that supplies a key scheme and nothing else
OnlyKeyScheme(keyScheme) ==
    [clientId |-> Absent, redirectUrl |-> Absent, provider |-> Absent,
     keyScheme |-> keyScheme]

\* C23: a session can be constructed from a configuration that supplies only a
\* key scheme, ED25519 or Secp256k1: the construction succeeds and yields a
\* session of that scheme without a key pair, on which key generation succeeds.
C23_KeySchemeAloneSuffices ==
    [][\A keyScheme \in {"ED25519", "Secp256k1"} :
          construct("sA", OnlyKeyScheme(keyScheme))
             => /\ last'.res = Ok
                /\ zk'["sA"].keyScheme = keyScheme
                /\ zk'["sA"].ephemeralKeyPair = Null]_vars

\* ====================================================================
\* What key generation touches (Spec)
\* ====================================================================
\* a session as the constructor leaves it
IsFresh(s) ==
    /\ s.ephemeralKeyPair = Null /\ s.randomness = Null /\ s.nonce = Null
    /\ s.maxEpoch = Null /\ s.currentEpoch = Null /\ s.jwt = Null
    /\ s.userAddress = Null /\ s.zkLoginSignature = Null

\* every field of z but the ephemeral key pair is as it was
OnlyKeyPairChanges(z) ==
    zk' = [zk EXCEPT ![z].ephemeralKeyPair = zk'[z].ephemeralKeyPair]

\* C24: a freshly created session reports no ephemeral key pair;
\* generateEphemeralKeyPair populates the ephemeral key pair and leaves
\* randomness, nonce, epochs, JWT, user address and signature unchanged, so
\* right after key generation on a fresh session getState reports
\* hasEphemeralKeyPair true and hasNonce false.
C24_KeyGenerationFrame ==
    /\ \A z \in Sessions : ~getState(zk[z]).hasEphemeralKeyPair
    /\ [][\A z \in Sessions :
            generateEphemeralKeyPair(z)
               => /\ OnlyKeyPairChanges(z)
                  /\ zk'[z].ephemeralKeyPair # Null
                  /\ last'.res = Ok
                  /\ IsFresh(zk[z])
                        => /\ getState(zk'[z]).hasEphemeralKeyPair
                           /\ ~getState(zk'[z]).hasNonce]_vars

\* key generation has just succeeded on a fresh session
C24_Witness ==
    /\ last.op = "generateEphemeralKeyPair"
    /\ last.res = Ok
    /\ zk["sA"].ephemeralKeyPair # Null
    /\ IsFresh([zk["sA"] EXCEPT !.ephemeralKeyPair = Null])
    /\ getState(zk["sA"]).hasEphemeralKeyPair
    /\ ~getState(zk["sA"]).hasNonce

\* ====================================================================
\* The sponsored mint (SpecMint): session sA logs in against the database
\* and POST /api/mint-nft-register is called for it at any moment
\* ====================================================================
ErrNoImage == "No image file uploaded. Please select an image for your NFT."
ErrInvalidAddress == "Invalid Sui address"
ErrNetwork == "mint request failed"
Sponsor == [wallet |-> "sponsor"]

\* What suiClient.signAndExecuteTransaction does with the transaction: the
\* request fails (it throws), or the transaction is executed and its effects
\* report success, or it is executed and its effects report failure (the Move
\* call aborted); in both executed cases a response with a digest is returned.
MintOutcomes == {"throws", "success", "failure"}

\* the transaction mintNFTWithWalletSponsor builds and has signed by `signer`
MintTransaction(userAddress, signer) ==
    [target |-> "photo_nft::mint_nft", recipient |-> userAddress,
     signer |-> signer, gasOwner |-> signer]

\* result.digest: the executed transaction, identified by its content and effects
Digest(tx, status) == [tx |-> tx, status |-> status]

\* the handler registers the session once signAndExecuteTransaction has returned
Registers(outcome) == outcome \in {"success", "failure"}

\* nftObjectId of mintNFTWithWalletSponsor: the id of the PhotoNFT object among
\* result.objectChanges, null when the transaction created none
CreatedObject(tx, status) ==
    IF status = "success" THEN [objectId |-> [createdBy |-> tx]] ELSE Null

\* `nft_${Date.now()}`
PlaceholderId == [objectId |-> [generated |-> "nft_<timestamp>"]]

\* the object `result` the handler assembles from walletResult
MintResult(tx, outcome) ==
    [digest |-> Digest(tx, outcome), registered |-> TRUE, sponsored |-> TRUE,
     nftObjectId |-> CreatedObject(tx, outcome)]

\* obj[name], undefined (Null) when obj has no such property
Property(obj, name) == IF name \in DOMAIN obj THEN obj[name] ELSE Null

\* const nftObjectId = result.objectId || result.id || `nft_${Date.now()}`
SessionNftObjectId(result) ==
    IF Property(result, "objectId") # Null THEN Property(result, "objectId")
    ELSE IF Property(result, "id") # Null THEN Property(result, "id")
    ELSE PlaceholderId

\* POST /api/mint-nft-register for session z, with or without an image file
mintNftRegister(z, hasImage, outcome) ==
    LET tx == MintTransaction(zk[z].userAddress, Sponsor)
        fails(msg) == /\ last' = Completed("mint-nft-register", z, msg)
                      /\ UNCHANGED zk
    IN  /\ IF ~hasImage THEN fails(ErrNoImage)
           ELSE IF zk[z].userAddress = Null THEN fails(ErrInvalidAddress)
           ELSE IF ~Registers(outcome) THEN fails(ErrNetwork)
           ELSE LET result == MintResult(tx, outcome)
                IN  /\ zk' = [zk EXCEPT ![z].registration =
                                [isRegistered |-> TRUE,
                                 registrationTx |-> result.digest,
                                 nftObjectId |-> SessionNftObjectId(result)]]
                    /\ last' = Responded("mint-nft-register", z, Ok,
                                    [transactionDigest |-> result.digest,
                                     nftObjectId |-> result.nftObjectId])
        /\ UNCHANGED <<store, calls, fresh>>

NextMint ==
    \/ Login("sA")
    \/ \E hasImage \in BOOLEAN, outcome \in MintOutcomes :
          mintNftRegister("sA", hasImage, outcome)

SpecMint == InitOutage /\ [][NextMint]_vars

\* the step is a call of the mint endpoint for z
MintStep(z) ==
    \E hasImage \in BOOLEAN, outcome \in MintOutcomes : mintNftRegister(z, hasImage, outcome)

\* the transaction a registered session was registered with
RegisteredWith(s) == s.registration.registrationTx

\* C25: the mint transaction is signed and its gas paid by the sponsor wallet
\* and its recipient is the session's derived user address; a session is marked
\* registered only after the sponsor-signed mint for it executed successfully,
\* and a failed mint request leaves the registration fields unchanged.
C25_RegisteredAfterSuccessfulMint ==
    /\ [](\A z \in Sessions :
            zk[z].registration.isRegistered
               => /\ RegisteredWith(zk[z]).status = "success"
                  /\ RegisteredWith(zk[z]).tx.signer = Sponsor
                  /\ RegisteredWith(zk[z]).tx.gasOwner = Sponsor)
    /\ [][\A z \in Sessions :
            MintStep(z)
               => /\ zk'[z].registration # zk[z].registration
                        => RegisteredWith(zk'[z]).tx.recipient = zk[z].userAddress
                  /\ last'.res # Ok => zk'[z].registration = zk[z].registration]_vars

\* ====================================================================
\* What the nonce is bound to (Spec)
\* ====================================================================
\* the nonce of s is the one derived from the key pair, maxEpoch and
\* randomness s holds now
NonceIsCurrent(s) ==
    /\ s.ephemeralKeyPair # Null /\ s.maxEpoch # Null /\ s.randomness # Null
    /\ s.nonce = generateNonce(s.ephemeralKeyPair, s.maxEpoch.epoch, s.randomness)

\* C26: in every reachable session state in which a nonce is set, the nonce is
\* the value derived from the session's current ephemeral public key, current
\* maxEpoch and current randomness.
C26_NonceBoundToCurrentKey ==
    \A z \in Sessions : zk[z].nonce # Null => NonceIsCurrent(zk[z])

\* ====================================================================
\* What a signature presupposes (Spec)
\* ====================================================================
\* Some processJWT call of the session has succeeded since the session was
\* created or last reset: userAddress is assigned by a succeeding processJWT
\* alone (line 304 or 315) and cleared by reset() alone.
ProcessJWTHasSucceeded(s) == s.userAddress # Null

\* C27: generateZkLoginSignature and createAndSignTransaction produce a
\* composite signature only if some processJWT call on the session has
\* succeeded since the session was created or last reset.
C27_SignatureNeedsProcessedJWT ==
    \A z \in Sessions :
        zk[z].zkLoginSignature # Null => ProcessJWTHasSucceeded(zk[z])

\* ====================================================================
\* A processJWT that fails validation (Spec)
\* ====================================================================
ValidationErrors == {ErrJwtFormat, ErrDecode, ErrNonceMismatch, ErrMissingSub}

\* the step is a processJWT call of z that fails validation
FailsValidation(z) ==
    /\ ProcessStep(z)
    /\ calls' = calls
    /\ last'.res \in ValidationErrors

\* C28: a processJWT call that fails validation (malformed token, undecodable
\* segment, nonce mismatch, missing sub claim) has no effect: the session's
\* JWT, decoded claims, salt and address are the same after the call as
\* before it, and no record of the salt store is created or changed.
C28_FailedValidationNoEffect ==
    [][\A z \in Sessions :
          FailsValidation(z)
             => /\ zk'[z].jwt = zk[z].jwt
                /\ zk'[z].decodedJWT = zk[z].decodedJWT
                /\ zk'[z].userSalt = zk[z].userSalt
                /\ zk'[z].userAddress = zk[z].userAddress
                /\ store' = store]_vars

\* ====================================================================
\* What a signature pairs (Spec)
\* ====================================================================
\* the session holds a JWT it accepted: a processJWT succeeded, and the token
\* held carries a nonce of the session and a subject
HoldsAcceptedJWT(s) ==
    /\ s.userAddress # Null
    /\ s.decodedJWT # Null
    /\ s.decodedJWT.payload.nonce # BogusNonce
    /\ s.decodedJWT.payload.sub \notin {Absent, ""}

\* the step is a signing call of z that assembles a signature
Signs(z) ==
    /\ generateZkLoginSignature(z) \/ createAndSignTransaction(z)
    /\ last'.res = Ok
    /\ zk'[z].zkLoginSignature # Null

\* C29: whenever a composite signature is assembled, the ephemeral key that
\* signs and the maxEpoch placed in the signature are the key pair and the
\* maxEpoch bound into the nonce of the JWT the session accepted.
C29_SignatureMatchesAcceptedJWT ==
    [][\A z \in Sessions :
          (HoldsAcceptedJWT(zk[z]) /\ Signs(z))
             => LET signature == zk'[z].zkLoginSignature
                    nonce == zk[z].decodedJWT.payload.nonce
                IN  /\ signature.userSignature.signedBy = nonce.pk
                    /\ signature.maxEpoch.epoch = nonce.maxEpoch]_vars

\* ====================================================================
\* Steps of one session in progress (Spec)
\* ====================================================================
\* a step of z is in progress: its processJWT is suspended in the salt store
InProgress(z) == calls[z] # Null

\* the step is the start of a step of z: key generation, prepare, token
\* processing or signing is called
StartsStep(z) ==
    \/ generateEphemeralKeyPair(z)
    \/ PrepareStep(z)
    \/ ProcessStep(z)
    \/ generateZkLoginSignature(z)
    \/ createAndSignTransaction(z)

\* C30: steps of one session are never in progress concurrently: a step of
\* the session starts only after the step issued before it has completed.
C30_StepsNeverConcurrent ==
    [][\A z \in Sessions : StartsStep(z) => ~InProgress(z)]_vars

\* ====================================================================
\* The session after reset() (Spec)
\* ====================================================================
\* getUserSalt(): this.userSalt
getUserSalt(s) == s.userSalt

\* what getState and getUserSalt report about a freshly constructed session
ReportsFresh(s) ==
    LET snap == getState(s)
    IN  /\ ~snap.hasEphemeralKeyPair /\ ~snap.hasRandomness /\ ~snap.hasNonce
        /\ ~snap.hasJWT /\ ~snap.hasDecodedJWT /\ ~snap.hasUserAddress
        /\ ~snap.hasZkLoginSignature
        /\ getUserSalt(s) = Null

\* C31: after reset(), from any reachable state, the session is
\* indistinguishable from a freshly constructed one: every has* flag of
\* getState is false and getUserSalt() returns no salt.
C31_ResetRestoresFresh ==
    [][\A z \in Sessions : reset(z) => ReportsFresh(zk'[z])]_vars

\* ====================================================================
\* getState() in every state (Spec)
\* ====================================================================
\* getState() of s throws
getStateThrows(s) == "error" \in DOMAIN getState(s)

\* C32: getState() is total: in every reachable session state, the state left
\* by a failed processJWT included, it returns a snapshot without raising an
\* error (it assigns no field, so it changes none).
C32_GetStateIsTotal ==
    \A z \in Sessions : ~getStateThrows(zk[z])

\* ====================================================================
\* The provider of a session (SpecConstruct)
\* ====================================================================
\* C33: in every reachable session state the session's provider is one of
\* the supported providers of PROVIDERS, so buildOAuthUrl always finds a
\* provider endpoint: no operation sets an unsupported provider.
C33_ProviderSupported ==
    /\ \A z \in Sessions : zk[z].provider \in DOMAIN PROVIDERS
    /\ last.op = "buildOAuthUrl" => "error" \notin DOMAIN last.res

\* ====================================================================
\* The token issued for the session's own authorization URL (SpecConfig)
\* ====================================================================
\* C34: in both OAuth flows a prepared session reaches JWTProcessed with the
\* token issued in response to its own authorization URL (carrying the
\* session's nonce exactly when the URL carried a nonce parameter):
\* processJWT accepts that token.
C34_IssuedTokenAccepted ==
    [][\A z \in Sessions :
          (~preparationMissing(zk[z]) /\ processJWT(z, IssuedToken(zk[z])))
             => /\ last'.res = Ok
                /\ zk'[z].userAddress # Null]_vars

\* ====================================================================
\* The provider descriptor in the authorization URL (SpecConfig)
\* ====================================================================
\* C35: the authorization URL is built from the configured provider's own
\* descriptor, its authorization endpoint and its requested scope, together
\* with the session's client id and redirect URL.
C35_UrlUsesProviderDescriptor ==
    \A z \in Sessions :
        (last.op = "buildOAuthUrl" /\ last.z = z)
            => LET descriptor == PROVIDERS[zk[z].provider]
               IN  /\ last.res.authUrl = descriptor.authUrl
                   /\ last.res.params.client_id = "clientId"
                   /\ last.res.params.redirect_uri = "redirectUrl"
                   /\ last.res.params.scope = descriptor.scope

\* ====================================================================
\* The HTTP server (SpecServer): the session store of server.js and its
\* session-scoped endpoints, each called with any session id at any
\* moment.  zk is the Map `sessions`: its domain holds the ids in the store
\* and zk[z] is the entry of z, the ZkLogin instance together with the
\* fields the handlers keep beside it.
\* ====================================================================
ErrInvalidSession == "Invalid session ID"
ErrMissingSession == "Invalid or missing session ID"
ErrSessionNotFound == "Session not found"
ErrNoTransactionData == "Transaction data is required"
ErrMissingProofData == "Missing required parameters for proof generation"
ErrNotAFunction == "zkLogin.<method> is not a function"

\* the provider /api/init configures every session with
ServerProvider == "google"

\* the ids in the store: sessions.has(sessionId)
sessions == DOMAIN zk

\* the methods of class ZkLogin that the handlers call
ZkLoginMethods ==
    {"generateEphemeralKeyPair", "prepareForJWT", "buildOAuthUrl", "processJWT",
     "getJWTClaims", "createAndSignTransaction", "getState", "getUserAddress",
     "getEphemeralPublicKey", "getNonce", "getOAuthUrl", "getUserSalt",
     "getDatabaseStats", "updateUserSalt", "deleteUserSalt"}

\* sessions.get(sessionId): the entry that /api/init stored, an object with
\* the properties zkLogin, state, createdAt and config
SessionEntry(z) ==
    [zkLogin |-> zk[z], state |-> "initialized", createdAt |-> "date",
     config |-> [provider |-> ServerProvider, keyScheme |-> zk[z].keyScheme]]

\* typeof obj[method] === 'function': obj is a ZkLogin instance
HasMethod(obj, method) == "ephemeralKeyPair" \in DOMAIN obj /\ method \in ZkLoginMethods

\* res.status(4xx or 500).json({success: false, error})
Rejected(op, z, msg) ==
    /\ last' = Responded(op, z, msg, [success |-> FALSE])
    /\ UNCHANGED <<zk, store, calls, fresh>>

\* res.json({success: true, ...}) of a handler that changes nothing
Answered(op, z, body) ==
    /\ last' = Responded(op, z, Ok, body)
    /\ UNCHANGED <<zk, store, calls, fresh>>

\* a generateSessionId() that may return an id it returned before
apiInit_Reusing(z) ==
    /\ z \notin sessions
    /\ calls[z] = Null
    /\ zk' = [x \in sessions \cup {z} |-> IF x = z THEN NewZkLogin(TRUE, "0") ELSE zk[x]]
    /\ fresh' = [fresh EXCEPT ![z].id = 1]
    /\ last' = Responded("POST /api/init", z, Ok, [sessionId |-> z])
    /\ UNCHANGED <<store, calls>>

\* POST /api/init: generateSessionId() returns z, an id it never returned
\* before (timestamp and random suffix), and the entry is stored under it
apiInit(z) ==
    /\ fresh[z].id = 0
    /\ zk' = [x \in sessions \cup {z} |-> IF x = z THEN NewZkLogin(TRUE, "0") ELSE zk[x]]
    /\ fresh' = [fresh EXCEPT ![z].id = 1]
    /\ last' = Responded("POST /api/init", z, Ok, [sessionId |-> z])
    /\ UNCHANGED <<store, calls>>

\* POST /api/generate-keys: generateEphemeralKeyPair(), then the awaited
\* prepareForJWT(session.config.provider, ...); a client asks for keys once
apiGenerateKeys(z) ==
    IF z \notin sessions
    THEN Rejected("POST /api/generate-keys", z, ErrInvalidSession)
    ELSE \/ zk[z].ephemeralKeyPair = Null /\ generateEphemeralKeyPair(z)
         \/ /\ zk[z].ephemeralKeyPair # Null
            /\ zk[z].nonce = Null
            /\ prepareForJWT(z, SessionEntry(z).config.provider, Null)

\* POST /api/prepare-jwt: const zkLogin = sessions.get(sessionId);
\* await zkLogin.prepareForJWT()
apiPrepareJwt(z) ==
    IF z \notin sessions
    THEN Rejected("POST /api/prepare-jwt", z, ErrMissingSession)
    ELSE IF ~HasMethod(SessionEntry(z), "prepareForJWT")
    THEN Rejected("POST /api/prepare-jwt", z, ErrNotAFunction)
    ELSE prepareForJWT(z, Absent, Null)

\* POST /api/process-jwt with a token issued for the session's nonce:
\* session.zkLogin.processJWT(jwtToken), suspended while the salt store works
apiProcessJwt(z) ==
    IF z \notin sessions
    THEN Rejected("POST /api/process-jwt", z, ErrInvalidSession)
    ELSE \/ /\ zk[z].nonce # Null
            /\ \E t \in IssuedTokens(z) : processJWT(z, t)
         \/ getOrCreateUserSalt_Select(z)
         \/ getOrCreateUserSalt_Insert(z)

\* POST /api/generate-zkproof: reads the session, builds the proof structure
apiGenerateZkproof(z) ==
    IF z \notin sessions
    THEN Rejected("POST /api/generate-zkproof", z, ErrMissingSession)
    ELSE IF \/ zk[z].userAddress = Null \/ getUserSalt(zk[z]) = Null
            \/ zk[z].nonce = Null \/ zk[z].ephemeralKeyPair = Null
            \/ zk[z].maxEpoch = Null \/ zk[z].jwt = Null
    THEN Rejected("POST /api/generate-zkproof", z, ErrMissingProofData)
    ELSE Answered("POST /api/generate-zkproof", z, [zkProof |-> ZkProof])

\* POST /api/create-transaction, with or without transactionData and zkProof:
\* const zkLogin = sessions.get(sessionId);
\* await zkLogin.createAndSignTransaction(transactionData, zkProof)
apiCreateTransaction(z, complete) ==
    IF z \notin sessions
    THEN Rejected("POST /api/create-transaction", z, ErrMissingSession)
    ELSE IF ~complete
    THEN Rejected("POST /api/create-transaction", z, ErrNoTransactionData)
    ELSE IF ~HasMethod(SessionEntry(z), "createAndSignTransaction")
    THEN Rejected("POST /api/create-transaction", z, ErrNotAFunction)
    ELSE createAndSignTransaction(z)

\* GET /api/session/:sessionId: const zkLogin = sessions.get(sessionId);
\* const state = zkLogin.getState()
apiGetSession(z) ==
    IF z \notin sessions
    THEN Rejected("GET /api/session", z, ErrSessionNotFound)
    ELSE IF ~HasMethod(SessionEntry(z), "getState")
    THEN Rejected("GET /api/session", z, ErrNotAFunction)
    ELSE IF getStateThrows(zk[z])
    THEN Rejected("GET /api/session", z, ErrDecode)
    ELSE Answered("GET /api/session", z, [state |-> getState(zk[z])])

\* GET /api/salt/:sessionId/:subject/:provider:
\* salt = await session.zkLogin.getUserSalt(subject, provider)
apiGetSalt(z, subject, provider) ==
    IF z \notin sessions
    THEN Rejected("GET /api/salt", z, ErrInvalidSession)
    ELSE Answered("GET /api/salt", z,
                  [salt |-> getUserSalt(zk[z]), subject |-> subject, provider |-> provider])

\* GET /api/database/stats/:sessionId: getDatabaseStats() -> getStats()
apiDatabaseStats(z) ==
    IF z \notin sessions
    THEN Rejected("GET /api/database/stats", z, ErrInvalidSession)
    ELSE Answered("GET /api/database/stats", z,
                  [totalUsers |-> Cardinality(store),
                   providers |-> Cardinality({r.provider : r \in store})])

\* PUT /api/salt/:sessionId with subject, provider and newSalt in the body
apiUpdateSalt(z, subject, provider, newSalt) ==
    IF z \notin sessions
    THEN Rejected("PUT /api/salt", z, ErrInvalidSession)
    ELSE updateUserSalt(z, subject, provider, newSalt)

\* DELETE /api/salt/:sessionId/:subject/:provider
apiDeleteSalt(z, subject, provider) ==
    IF z \notin sessions
    THEN Rejected("DELETE /api/salt", z, ErrInvalidSession)
    ELSE deleteUserSalt(z, subject, provider)

\* DELETE /api/session/:sessionId: sessions.delete(sessionId), handled when
\* no request of the session is waiting for the salt store
apiDeleteSession(z) ==
    IF z \notin sessions
    THEN Rejected("DELETE /api/session", z, ErrSessionNotFound)
    ELSE /\ calls[z] = Null
         /\ zk' = [x \in sessions \ {z} |-> zk[x]]
         /\ last' = Responded("DELETE /api/session", z, Ok, [success |-> TRUE])
         /\ UNCHANGED <<store, calls, fresh>>

\* POST /api/mint-nft-register
apiMintNftRegister(z, hasImage, outcome) ==
    IF z \notin sessions
    THEN Rejected("mint-nft-register", z, ErrMissingSession)
    ELSE mintNftRegister(z, hasImage, outcome)

\* GET /api/registration-status/:sessionId
apiRegistrationStatus(z) ==
    IF z \notin sessions
    THEN Rejected("GET /api/registration-status", z, ErrSessionNotFound)
    ELSE Answered("GET /api/registration-status", z,
                  [isRegistered |-> zk[z].registration.isRegistered,
                   registrationTx |-> zk[z].registration.registrationTx,
                   nftObjectId |-> zk[z].registration.nftObjectId,
                   userAddress |-> zk[z].userAddress])

\* the server has started: no session, an empty store, no id generated
InitServer ==
    /\ zk = [x \in {} |-> Null]
    /\ store = {}
    /\ calls = [z \in Sessions |-> Null]
    /\ fresh = [z \in Sessions |-> [key |-> 0, salt |-> 0, id |-> 0]]
    /\ last = [op |-> "listen", z |-> "-", res |-> Ok]

\* The ids requests are sent with: sA at any moment; sB, the session of a
\* client that creates it and deletes it again, while it is not in the store.
RequestIds == {z \in Sessions : z = "sA" \/ z \notin sessions}

NextServer ==
    \/ \E z \in Sessions : apiInit(z)
    \/ \E z \in RequestIds : apiGenerateKeys(z)
    \/ \E z \in RequestIds : apiPrepareJwt(z)
    \/ \E z \in RequestIds : apiProcessJwt(z)
    \/ \E z \in RequestIds : apiGenerateZkproof(z)
    \/ \E z \in RequestIds, complete \in BOOLEAN : apiCreateTransaction(z, complete)
    \/ \E z \in RequestIds : apiGetSession(z)
    \/ \E z \in RequestIds, u \in Subjects : apiGetSalt(z, u, ServerProvider)
    \/ \E z \in RequestIds : apiDatabaseStats(z)
    \/ \E z \in RequestIds, u \in PipelineSubjects :
          apiUpdateSalt(z, u, ServerProvider, RotatedSalt)
    \/ \E z \in RequestIds, u \in PipelineSubjects :
          apiDeleteSalt(z, u, ServerProvider)
    \/ \E z \in Sessions : apiDeleteSession(z)
    \/ \E z \in RequestIds, hasImage \in BOOLEAN, outcome \in MintOutcomes :
          apiMintNftRegister(z, hasImage, outcome)
    \/ \E z \in RequestIds : apiRegistrationStatus(z)

SpecServer == InitServer /\ [][NextServer]_vars

\* ====================================================================
\* Properties of the HTTP server (specification SpecServer)
\* ====================================================================
\* prepareForJWT() of the instance would return its result: keys are generated
PrepareWouldSucceed(s) == s.ephemeralKeyPair # Null

\* createAndSignTransaction() of the instance would return a signature
SignWouldSucceed(s) ==
    s.userAddress # Null /\ s.ephemeralKeyPair # Null /\ s.jwt # Null

\* C36: for a session id in the store, POST /api/prepare-jwt, POST
\* /api/create-transaction and GET /api/session/:sessionId invoke prepareForJWT,
\* createAndSignTransaction and getState on that session's ZkLogin instance,
\* and answer success whenever the ZkLogin operation succeeds.
C36_EndpointsReachInstance ==
    [][\A z \in sessions :
          /\ (PrepareWouldSucceed(zk[z]) /\ apiPrepareJwt(z))
                => last'.res = Ok /\ zk'[z].nonce # zk[z].nonce
          /\ (SignWouldSucceed(zk[z]) /\ apiCreateTransaction(z, TRUE))
                => last'.res = Ok /\ zk'[z].zkLoginSignature # Null
          /\ (~getStateThrows(zk[z]) /\ apiGetSession(z))
                => last'.res = Ok /\ last'.body.state = getState(zk[z])]_vars

\* the step is a request to a session-scoped endpoint made with session id z
SessionRequest(z) ==
    \/ apiGenerateKeys(z)
    \/ apiPrepareJwt(z)
    \/ apiProcessJwt(z)
    \/ apiGenerateZkproof(z)
    \/ \E complete \in BOOLEAN : apiCreateTransaction(z, complete)
    \/ apiGetSession(z)
    \/ \E u \in Subjects, p \in Providers : apiGetSalt(z, u, p)
    \/ apiDatabaseStats(z)
    \/ \E u \in Subjects, p \in Providers : apiUpdateSalt(z, u, p, RotatedSalt)
    \/ \E u \in Subjects, p \in Providers : apiDeleteSalt(z, u, p)
    \/ apiDeleteSession(z)
    \/ \E hasImage \in BOOLEAN, outcome \in MintOutcomes :
          apiMintNftRegister(z, hasImage, outcome)
    \/ apiRegistrationStatus(z)

\* the id was in the store and was deleted
Deleted(z) == fresh[z].id > 0 /\ z \notin sessions

\* C37: every session-scoped endpoint called with a session id that is not in
\* the store answers an error and creates or changes no session (nor the salt
\* store); once a session is deleted it stays out of the store, so every later
\* request with its id fails; and a session leaves the store only by an
\* explicit DELETE /api/session for its id.
C37_UnknownSessionRejected ==
    [][\A z \in Sessions :
          /\ (z \notin sessions /\ SessionRequest(z))
                => /\ last'.z = z
                   /\ last'.res \in {ErrInvalidSession, ErrMissingSession, ErrSessionNotFound}
                   /\ zk' = zk
                   /\ store' = store
          /\ Deleted(z) => Deleted(z)'
          /\ (z \in sessions /\ z \notin sessions')
                => /\ last'.op = "DELETE /api/session"
                   /\ last'.z = z
                   /\ last'.res = Ok
                   /\ \A y \in sessions \ {z} : y \in sessions' /\ zk'[y] = zk[y]]_vars

\* a request with the id of a deleted session was rejected while another
\* session is in the store and the salt store holds a record
C37_Witness ==
    /\ Deleted("sA")
    /\ "sB" \in sessions
    /\ store # {}
    /\ last.z = "sA"
    /\ last.op = "POST /api/process-jwt"
    /\ last.res = ErrInvalidSession

\* C38: after a successful POST /api/mint-nft-register for a session,
\* GET /api/registration-status/:sessionId reports isRegistered true with the
\* transaction digest and the nftObjectId that the mint response returned.
C38_StatusMatchesMint ==
    [][\A z \in sessions :
          (/\ last.op = "mint-nft-register"
           /\ last.z = z
           /\ last.res = Ok
           /\ apiRegistrationStatus(z))
             => /\ last'.body.isRegistered
                /\ last'.body.registrationTx = last.body.transactionDigest
                /\ last'.body.nftObjectId = last.body.nftObjectId]_vars

\* the salt the store holds for the pair: the custom_salt of its record, or
\* none (Null)
StoredSalt(rows, u, p) ==
    IF SelectSalt(rows, u, p) = {} THEN Null
    ELSE (CHOOSE r \in SelectSalt(rows, u, p) : TRUE).custom_salt

\* C39: GET /api/salt/:sessionId/:subject/:provider returns the salt the salt
\* store holds for the (subject, provider) pair named in the path, whichever
\* identity the addressed session has processed.
C39_SaltOfThePathPair ==
    [][\A z \in sessions : \A u \in Subjects, p \in Providers :
          apiGetSalt(z, u, p) => last'.body.salt = StoredSalt(store, u, p)]_vars

====
